---- MODULE Spec2Model ----
(***************************************************************************)
(* QReviewer review-dispatch pipeline: the response normaliser, the three  *)
(* backend adapters, the synchronous review_hunk wrapper, the per-hunk     *)
(* loop of the `review` command and the security heuristic pass.           *)
(*                                                                         *)
(* Conventions.  Python strings are TLA+ strings, read with Len, \o,      *)
(* Head, Tail and SubSeq.  A confidence is an integer number of            *)
(* hundredths (0.1 is 10, 0.2 is 20, 1.0 is 100).  The outcome of a call   *)
(* that may raise is a record: Return(v) or Raise(type, msg).              *)
(***************************************************************************)
EXTENDS Integers, Sequences, FiniteSets, TLC

VARIABLES
    backend,        \* config.llm_backend, read-only during a run
    loop_running,   \* whether review_hunk is called inside a running event loop
    hunks,          \* the hunk sequence extracted from the PR diff
    pc,             \* position of the `review` command
    idx,            \* number of hunks the for-loop has finished
    all_findings,   \* cli.review: all_findings
    outcomes,       \* what the backend did for each hunk reviewed so far
    warnings,       \* hunks for which the loop printed "Failed to review hunk"
    report,         \* the findings written to the output file, or NoReport
    nrm_in,         \* normaliser study: the raw text handed to the normaliser
    nrm_out,        \* normaliser study: what the call returned or raised
    heur_in,        \* heuristic study: the list before the latest pass
    heur_out,       \* heuristic study: the list after the latest pass
    passes,         \* heuristic study: number of passes applied
    heap,           \* heuristic study: the Finding objects, by identity
    arg_list,       \* heuristic study: the caller's list (object identities)
    ret_list,       \* heuristic study: the list the latest pass returned
    changed,        \* heuristic study: per object, the passes that changed it
    agg_in,         \* aggregation study: the findings of a report
    agg_sum,        \* aggregation study: the stats `summarize` computed
    agg_ro,         \* aggregation study: the stats `review_only` computed
    call_pc,        \* one review_hunk call: where the call is
    process,        \* one review_hunk call: the ssh subprocess
    responsive,     \* one review_hunk call: whether the backend ever answers
    backend_calls,  \* one review_hunk call: backend calls made
    parser_calls,   \* one review_hunk call: calls of the normaliser
    call_result     \* one review_hunk call: what the call returned or raised

runVars == <<backend, loop_running, hunks, pc, idx, all_findings, outcomes,
             warnings, report>>
nrmVars == <<nrm_in, nrm_out>>
heurVars == <<heur_in, heur_out, passes, heap, arg_list, ret_list, changed>>
aggVars == <<agg_in, agg_sum, agg_ro>>
callVars == <<call_pc, process, responsive, backend_calls, parser_calls, call_result>>

vars == <<runVars, nrmVars, heurVars, aggVars, callVars>>

-----------------------------------------------------------------------------
(* Bounds of the model.                                                    *)

MaxHunks == 2       \* longest hunk sequence of a run
MaxItems == 2       \* longest JSON array a backend answers with
MaxFindings == 2    \* longest finding list given to the heuristic pass
MaxPasses == 2      \* consecutive heuristic passes
MaxReportFindings == 3  \* longest sampled finding list of a report

-----------------------------------------------------------------------------
(* Python strings.                                                         *)

LowerChar(c) ==
    CASE c = "A" -> "a" [] c = "B" -> "b" [] c = "C" -> "c" [] c = "D" -> "d"
      [] c = "E" -> "e" [] c = "F" -> "f" [] c = "G" -> "g" [] c = "H" -> "h"
      [] c = "I" -> "i" [] c = "J" -> "j" [] c = "K" -> "k" [] c = "L" -> "l"
      [] c = "M" -> "m" [] c = "N" -> "n" [] c = "O" -> "o" [] c = "P" -> "p"
      [] c = "Q" -> "q" [] c = "R" -> "r" [] c = "S" -> "s" [] c = "T" -> "t"
      [] c = "U" -> "u" [] c = "V" -> "v" [] c = "W" -> "w" [] c = "X" -> "x"
      [] c = "Y" -> "y" [] c = "Z" -> "z" [] OTHER -> c

RECURSIVE lower(_)
\* str.lower(), character by character (halving keeps the evaluation shallow)
lower(s) ==
    IF Len(s) <= 1 THEN LowerChar(s)
    ELSE lower(SubSeq(s, 1, Len(s) \div 2))
           \o lower(SubSeq(s, Len(s) \div 2 + 1, Len(s)))

\* Python's `k in s` on strings
Contains(s, k) ==
    \E i \in 1..(Len(s) - Len(k) + 1) : SubSeq(s, i, i + Len(k) - 1) = k

IsSpace(c) == c \in {" ", "\n", "\t", "\r"}

RECURSIVE lstrip(_)
lstrip(s) == IF s # "" /\ IsSpace(Head(s)) THEN lstrip(Tail(s)) ELSE s

RECURSIVE rstrip(_)
rstrip(s) ==
    IF s # "" /\ IsSpace(SubSeq(s, Len(s), Len(s)))
    THEN rstrip(SubSeq(s, 1, Len(s) - 1)) ELSE s

\* str.strip()
strip(s) == rstrip(lstrip(s))

-----------------------------------------------------------------------------
(* Python calls: a call returns a value or raises an exception.            *)

Return(v) == [raised |-> FALSE, value |-> v]
Raise(t, m) == [raised |-> TRUE, exc |-> [type |-> t, msg |-> m]]

\* the classes `except <cls>` matches for an exception of type t
Bases(t) ==
    CASE t = "ModuleNotFoundError" -> {t, "ImportError", "Exception"}
      [] t = "JSONDecodeError" -> {t, "ValueError", "Exception"}
      [] t = "FileNotFoundError" -> {t, "OSError", "Exception"}
      [] OTHER -> {t, "Exception"}

IsInstance(e, cls) == cls \in Bases(e.type)

\* str(e), as an f-string interpolates it
Str(e) == e.msg

-----------------------------------------------------------------------------
(* Data model: Hunk and Finding (qrev.models).                             *)

None == "None"

Hunk(file_path, hunk_header, end_line) ==
    [file_path |-> file_path, hunk_header |-> hunk_header, end_line |-> end_line]

Finding(file, hunk_header, severity, category, message, confidence, suggested_patch, line_hint) ==
    [file |-> file, hunk_header |-> hunk_header, severity |-> severity,
     category |-> category, message |-> message, confidence |-> confidence,
     suggested_patch |-> suggested_patch, line_hint |-> line_hint]

HunkA == Hunk("app/db.py", "@@ -10,4 +10,6 @@", 15)
HunkB == Hunk("README.md", "@@ -1,2 +1,3 @@", 3)
Hunks == {HunkA, HunkB}

\* sequences over S of length at most n
SeqsUpTo(S, n) == UNION {[1..k -> S] : k \in 0..n}

\* hunk sequences of a diff: no hunk occurs twice
HunkSeqs ==
    {hs \in SeqsUpTo(Hunks, MaxHunks) :
        \A i, j \in 1..Len(hs) : i # j => hs[i] # hs[j]}

-----------------------------------------------------------------------------
(* What a backend can answer.  A raw text is either a JSON document,       *)
(* given by the value it denotes, or a text that is no JSON document.      *)

PyList(items) == [t |-> "list", items |-> items]
PyDict(d) == [t |-> "dict", d |-> d]
PyStr(s) == [t |-> "str", s |-> s]
PyNum(n) == [t |-> "num", n |-> n]

ObjPassword ==
    PyDict([severity |-> "minor", category |-> "general",
            message |-> "leaked password in config", confidence |-> 60])
ObjImport ==
    PyDict([severity |-> "major", category |-> "style",
            message |-> "Unused import", confidence |-> 90,
            suggested_patch |-> "import os"])
ObjPartial == PyDict([message |-> "Consider renaming this"])

\* the five fields a well-formed finding object carries (suggested_patch is optional)
IsWellFormedObject(v) ==
    /\ v.t = "dict"
    /\ {"severity", "category", "message", "confidence"} \subseteq DOMAIN v.d

JsonItems == {ObjPassword, ObjImport, ObjPartial, PyStr("oops")}

JsonLists == {PyList(l) : l \in SeqsUpTo(JsonItems, MaxItems)}

JsonValues ==
    JsonLists
      \cup {PyDict([findings |-> PyList(l)]) : l \in SeqsUpTo(JsonItems, 1)}
      \cup {PyDict([findings |-> PyNum(3)]), PyDict([result |-> "ok"]), PyNum(42)}

JsonText(v) == [kind |-> "json", value |-> v]
PlainText(s) == [kind |-> "text", text |-> s]

RawTexts ==
    {JsonText(v) : v \in JsonValues}
      \cup {PlainText("I found no issues."), PlainText("Sure, here is my review: [")}

\* json.loads: the value of a JSON document, JSONDecodeError for any other text
json_loads(response_text) ==
    IF response_text.kind = "json"
    THEN Return(response_text.value)
    ELSE Raise("JSONDecodeError", "Expecting value: line 1 column 1 (char 0)")

\* dict.get(key, default)
DictGet(d, key, default) == IF key \in DOMAIN d THEN d[key] ELSE default

\* `for x in v`: the elements visited, or TypeError
Iterate(v) ==
    CASE v.t = "list" -> Return(v.items)
      [] v.t = "str" -> Return([i \in 1..Len(v.s) |-> PyStr(SubSeq(v.s, i, i))])
      [] v.t = "dict" -> Return(<<>>)     \* keys: strings, never mappings
      [] OTHER -> Raise("TypeError", "'int' object is not iterable")

-----------------------------------------------------------------------------
(* BaseLLMClient: the response normaliser.                                 *)

\* Reading the name n in a frame whose bindings are `scope`; the module's
\* globals (llm_client.py:3-12 and its classes and functions) bind no `hunk`.
Name(scope, n) ==
    IF n \in DOMAIN scope
    THEN Return(scope[n])
    ELSE Raise("NameError", "name '" \o n \o "' is not defined")

_create_dummy_finding(hunk, message) ==
    << Finding(hunk.file_path, hunk.hunk_header, "info", "system",
               "LLM response parsing failed: " \o message, 10, None,
               hunk.end_line) >>

\* the call self._create_dummy_finding(hunk, message) evaluated in a frame
CallDummy(scope, message) ==
    LET h == Name(scope, "hunk")
    IN  IF h.raised THEN h ELSE Return(_create_dummy_finding(h.value, message))

\* the Finding built from one mapping of the list (lines 48-57)
FindingOf(hunk, finding_data) ==
    Finding(hunk.file_path, hunk.hunk_header,
            DictGet(finding_data.d, "severity", "info"),
            DictGet(finding_data.d, "category", "general"),
            DictGet(finding_data.d, "message", "No message provided"),
            DictGet(finding_data.d, "confidence", 50),
            DictGet(finding_data.d, "suggested_patch", None),
            hunk.end_line)

IsDictItem(x) == x.t = "dict"

\* the loop of lines 45-58: `hunk` is read when the first mapping is met
BuildFindings(scope, findings_list) ==
    LET it == Iterate(findings_list)
    IN  IF it.raised THEN it
        ELSE LET dicts == SelectSeq(it.value, IsDictItem)
             IN  IF dicts = <<>> THEN Return(<<>>)
                 ELSE LET h == Name(scope, "hunk")
                      IN  IF h.raised THEN h
                          ELSE Return([i \in 1..Len(dicts) |->
                                          FindingOf(h.value, dicts[i])])

\* the body of the try statement (lines 33-60)
ParseTryBody(scope, response_text) ==
    LET loaded == json_loads(response_text)
    IN  IF loaded.raised THEN loaded
        ELSE LET findings_data == loaded.value
             IN  IF findings_data.t = "list"
                     \/ (findings_data.t = "dict" /\ "findings" \in DOMAIN findings_data.d)
                 THEN LET findings_list ==
                              IF findings_data.t = "list" THEN findings_data
                              ELSE findings_data.d["findings"]
                          built == BuildFindings(scope, findings_list)
                      IN  IF built.raised THEN built
                          ELSE IF built.value # <<>> THEN built
                          ELSE CallDummy(scope, "No findings generated")
                 ELSE CallDummy(scope, "Unexpected response format")

\* _parse_findings_response(self, response_text): its frame binds self and
\* response_text; an exception raised inside a handler leaves the function
_parse_findings_response(response_text) ==
    LET scope == [self |-> "self", response_text |-> response_text]
        r == ParseTryBody(scope, response_text)
    IN  IF ~r.raised THEN r
        ELSE IF IsInstance(r.exc, "JSONDecodeError")
        THEN CallDummy(scope, "Failed to parse response: " \o Str(r.exc))
        ELSE IF IsInstance(r.exc, "Exception")
        THEN CallDummy(scope, "Error parsing findings: " \o Str(r.exc))
        ELSE r

-----------------------------------------------------------------------------
(* AmazonQCLIClient: the remote-shell adapter.                             *)

review_timeout_sec == "30"

\* what the ssh subprocess can do
NoSsh == [type |-> "FileNotFoundError",
          msg |-> "[Errno 2] No such file or directory: 'ssh'"]
SshSpawnError(e) == [kind |-> "spawn_error", exc |-> e]
SshTimeout == [kind |-> "timeout"]
SshExit(returncode, stdout, stderr) ==
    [kind |-> "exit", returncode |-> returncode, stdout |-> stdout,
     stderr |-> stderr]

\* stdout.decode().strip()
StripText(raw) == IF raw.kind = "text" THEN PlainText(strip(raw.text)) ELSE raw
\* `not response`
IsEmptyText(raw) == raw.kind = "text" /\ raw.text = ""

\* SshTryBody without the test for an empty response
SshTryBody_NoEmptyCheck(proc) ==
    CASE proc.kind = "spawn_error" -> [raised |-> TRUE, exc |-> proc.exc]
      [] proc.kind = "timeout" -> Raise("TimeoutError", "")
      [] OTHER ->
            IF proc.returncode # 0
            THEN Raise("LLMClientError",
                       "SSH command failed: "
                         \o (IF proc.stderr # "" THEN proc.stderr
                             ELSE "Unknown SSH error"))
            ELSE Return(StripText(proc.stdout))

\* the body of the try statement of _execute_ssh_command (lines 159-179)
SshTryBody(proc) ==
    CASE proc.kind = "spawn_error" -> [raised |-> TRUE, exc |-> proc.exc]
      [] proc.kind = "timeout" -> Raise("TimeoutError", "")
      [] OTHER ->
            IF proc.returncode # 0
            THEN Raise("LLMClientError",
                       "SSH command failed: "
                         \o (IF proc.stderr # "" THEN proc.stderr
                             ELSE "Unknown SSH error"))
            ELSE LET response == StripText(proc.stdout)
                 IN  IF IsEmptyText(response)
                     THEN Raise("LLMClientError", "Empty response from Q CLI")
                     ELSE Return(response)

\* _execute_ssh_command: the LLMClientError raised inside the try statement is
\* caught by its own `except Exception` and wrapped again
_execute_ssh_command(proc) ==
    LET r == SshTryBody(proc)
    IN  IF ~r.raised THEN r
        ELSE IF IsInstance(r.exc, "TimeoutError")
        THEN Raise("LLMClientError",
                   "SSH command timed out after " \o review_timeout_sec \o " seconds")
        ELSE IF IsInstance(r.exc, "Exception")
        THEN Raise("LLMClientError", "SSH execution error: " \o Str(r.exc))
        ELSE r

AmazonQ_review_hunk(hunk, proc) ==
    LET response == _execute_ssh_command(proc)
        r == IF response.raised THEN response
             ELSE _parse_findings_response(response.value)
    IN  IF r.raised /\ IsInstance(r.exc, "Exception")
        THEN Return(_create_dummy_finding(hunk, "Amazon Q CLI error: " \o Str(r.exc)))
        ELSE r

-----------------------------------------------------------------------------
(* BedrockClient and OpenAIClient: the vendor-call adapters.               *)

ImportFails == [kind |-> "import_error"]
VendorError(t, m) == [kind |-> "error", exc |-> [type |-> t, msg |-> m]]
VendorContent(raw) == [kind |-> "content", text |-> raw]

\* the body of either try statement: import, call, extract, normalise
VendorTryBody(call, module) ==
    CASE call.kind = "import_error" ->
            Raise("ModuleNotFoundError", "No module named '" \o module \o "'")
      [] call.kind = "error" -> [raised |-> TRUE, exc |-> call.exc]
      [] OTHER -> _parse_findings_response(call.text)

Bedrock_review_hunk(hunk, call) ==
    LET r == VendorTryBody(call, "boto3")
    IN  IF ~r.raised THEN r
        ELSE IF IsInstance(r.exc, "ImportError")
        THEN Return(_create_dummy_finding(hunk, "boto3 not installed for Bedrock support"))
        ELSE IF IsInstance(r.exc, "ClientError")
        THEN Return(_create_dummy_finding(hunk, "Bedrock API error: " \o Str(r.exc)))
        ELSE IF IsInstance(r.exc, "Exception")
        THEN Return(_create_dummy_finding(hunk, "Bedrock error: " \o Str(r.exc)))
        ELSE r

OpenAI_review_hunk(hunk, call) ==
    LET r == VendorTryBody(call, "openai")
    IN  IF ~r.raised THEN r
        ELSE IF IsInstance(r.exc, "ImportError")
        THEN Return(_create_dummy_finding(hunk, "openai not installed for OpenAI support"))
        ELSE IF IsInstance(r.exc, "Exception")
        THEN Return(_create_dummy_finding(hunk, "OpenAI error: " \o Str(r.exc)))
        ELSE r

-----------------------------------------------------------------------------
(* Backend selection and the synchronous wrapper.                          *)

SupportedBackends == {"amazon_q", "bedrock", "openai"}
Backends == SupportedBackends \cup {"gemini"}

get_llm_client(b) ==
    IF b = "amazon_q" THEN Return("AmazonQCLIClient")
    ELSE IF b = "bedrock" THEN Return("BedrockClient")
    ELSE IF b = "openai" THEN Return("OpenAIClient")
    ELSE Raise("ValueError", "Unsupported LLM backend: " \o b)

\* client.review_hunk(hunk, guidelines), by the class of the client
Client_review_hunk(client, hunk, env) ==
    CASE client = "AmazonQCLIClient" -> AmazonQ_review_hunk(hunk, env)
      [] client = "BedrockClient" -> Bedrock_review_hunk(hunk, env)
      [] OTHER -> OpenAI_review_hunk(hunk, env)

\* review_hunk(hunk, guidelines): env is what the backend does if it is called
review_hunk(b, in_loop, hunk, env) ==
    LET client == get_llm_client(b)
    IN  IF client.raised THEN client
        ELSE IF in_loop
        THEN Return(_create_dummy_finding(
                        hunk, "Async execution not supported in this context"))
        ELSE Client_review_hunk(client.value, hunk, env)

\* how often the adapter hands a response to the normaliser: the ssh adapter
\* when _execute_ssh_command returned (line 104), the vendor adapters when
\* the call returned a content (lines 229 and 275)
NormaliserCalls(client, env) ==
    IF client = "AmazonQCLIClient"
    THEN IF _execute_ssh_command(env).raised THEN 0 ELSE 1
    ELSE IF env.kind = "content" THEN 1 ELSE 0

\* the answers a backend gives during a run
RunResponses ==
    {JsonText(PyList(<<ObjPassword>>)), JsonText(PyList(<<ObjImport, ObjPassword>>)),
     JsonText(PyList(<<>>)), PlainText("I found no issues.")}

NoBackendCall == [kind |-> "not_called"]

SshOutcomes ==
    {SshSpawnError(NoSsh), SshTimeout,
     SshExit(255, PlainText(""), "Connection refused"),
     SshExit(1, PlainText(""), ""),
     SshExit(0, PlainText(" \n"), "")}
      \cup {SshExit(0, raw, "") : raw \in RunResponses}

BedrockOutcomes ==
    {ImportFails,
     VendorError("ClientError",
        "An error occurred (UnrecognizedClientException) when calling the InvokeModel operation: The security token included in the request is invalid."),
     VendorError("KeyError", "'content'")}
      \cup {VendorContent(raw) : raw \in RunResponses}

OpenAIOutcomes ==
    {ImportFails, VendorError("AuthenticationError", "Incorrect API key provided"),
     VendorError("Timeout", "Request timed out")}
      \cup {VendorContent(raw) : raw \in RunResponses}

\* what can happen behind one call of review_hunk
EnvOutcomes(b, in_loop) ==
    IF b \notin SupportedBackends \/ in_loop THEN {NoBackendCall}
    ELSE IF b = "amazon_q" THEN SshOutcomes
    ELSE IF b = "bedrock" THEN BedrockOutcomes
    ELSE OpenAIOutcomes

-----------------------------------------------------------------------------
(* The security heuristic pass.                                            *)

security_keywords ==
    << "password", "secret", "key", "token", "auth", "login", "admin",
       "sql", "injection", "xss", "csrf", "eval", "exec", "shell",
       "file", "upload", "download", "path", "traversal", "overflow" >>

Min(a, b) == IF a <= b THEN a ELSE b

\* any(keyword in content_lower for keyword in security_keywords)
MatchesKeyword(message) ==
    \E content_lower \in {lower(message)} :
        \E k \in 1..Len(security_keywords) :
            Contains(content_lower, security_keywords[k])

\* EnhanceFinding with the severity test dropped: every match is escalated
EnhanceFinding_AnySeverity(finding) ==
    IF MatchesKeyword(finding.message) /\ finding.category # "security"
    THEN [finding EXCEPT !.category = "security", !.severity = "major",
                         !.confidence = Min(@ + 20, 100)]
    ELSE finding

\* EnhanceFinding with the category test dropped
EnhanceFinding_NoCategoryCheck(finding) ==
    IF MatchesKeyword(finding.message)
    THEN IF finding.severity \in {"nit", "minor"}
         THEN [finding EXCEPT !.category = "security", !.severity = "major",
                              !.confidence = Min(@ + 20, 100)]
         ELSE [finding EXCEPT !.category = "security"]
    ELSE finding

\* EnhanceFinding with the escalation outside the keyword test
EnhanceFinding_IgnoresMatch(finding) ==
    IF finding.category # "security" /\ finding.severity \in {"nit", "minor"}
    THEN [finding EXCEPT !.category = "security", !.severity = "major",
                         !.confidence = Min(@ + 20, 100)]
    ELSE IF MatchesKeyword(finding.message) /\ finding.category # "security"
    THEN [finding EXCEPT !.category = "security"]
    ELSE finding

\* the body of the for loop (lines 328-337) on one finding
EnhanceFinding(finding) ==
    IF MatchesKeyword(finding.message) /\ finding.category # "security"
    THEN IF finding.severity \in {"nit", "minor"}
         THEN [finding EXCEPT !.category = "security", !.severity = "major",
                              !.confidence = Min(@ + 20, 100)]
         ELSE [finding EXCEPT !.category = "security"]
    ELSE finding

apply_security_heuristics(findings) ==
    [i \in 1..Len(findings) |-> EnhanceFinding(findings[i])]

\* the for loop over enhanced_findings, on the objects themselves: the
\* element assignments of lines 332-337 write to the object the list holds
RECURSIVE EnhanceInPlace(_, _)
EnhanceInPlace(h, ids) ==
    IF ids = <<>> THEN h
    ELSE EnhanceInPlace([h EXCEPT ![Head(ids)] = EnhanceFinding(@)], Tail(ids))

\* apply_security_heuristics_inplace with a copy of every finding: the loop
\* works on new objects and the caller's objects stay as they were
apply_security_heuristics_inplace_Copies(h, findings) ==
    LET enhanced_findings == [i \in 1..Len(findings) |-> Len(h) + i]
        copied == h \o [i \in 1..Len(findings) |-> h[findings[i]]]
    IN  [heap |-> EnhanceInPlace(copied, enhanced_findings),
         enhanced_findings |-> enhanced_findings]

\* findings.copy() is a new list of the same objects (line 325); the list
\* is returned after the loop (line 339)
apply_security_heuristics_inplace(h, findings) ==
    LET enhanced_findings == findings
    IN  [heap |-> EnhanceInPlace(h, enhanced_findings),
         enhanced_findings |-> enhanced_findings]

-----------------------------------------------------------------------------
(* Values of the variables a study does not use.                           *)

NoReport == [written |-> FALSE]
NotCalled == [called |-> FALSE]
NotStarted == [kind |-> "not_started"]
Running == [kind |-> "running"]
Called(r) == [called |-> TRUE, result |-> r]

RunIdle ==
    /\ backend = "amazon_q" /\ loop_running = FALSE /\ hunks = <<>>
    /\ pc = "idle" /\ idx = 0 /\ all_findings = <<>> /\ outcomes = <<>>
    /\ warnings = 0 /\ report = NoReport
NrmIdle ==
    /\ nrm_in = [hunk |-> HunkA, response |-> PlainText("")]
    /\ nrm_out = NotCalled
HeurIdle ==
    /\ heur_in = <<>> /\ heur_out = <<>> /\ passes = 0
    /\ heap = <<>> /\ arg_list = <<>> /\ ret_list = <<>> /\ changed = <<>>
AggIdle ==
    /\ agg_in = [findings |-> <<>>, pr_files |-> 0, format |-> "json"]
    /\ agg_sum = NotCalled /\ agg_ro = NotCalled
CallIdle ==
    /\ call_pc = "idle" /\ process = NotStarted /\ responsive = TRUE
    /\ backend_calls = 0 /\ parser_calls = 0 /\ call_result = NotCalled

-----------------------------------------------------------------------------
(* The normaliser on its own: one raw text, received for one hunk.         *)

InitNorm ==
    /\ RunIdle /\ HeurIdle /\ AggIdle /\ CallIdle
    /\ nrm_in \in [hunk : Hunks, response : RawTexts]
    /\ nrm_out = NotCalled

\* the adapter's call self._parse_findings_response(response)
Normalize ==
    /\ ~nrm_out.called
    /\ nrm_out' = Called(_parse_findings_response(nrm_in.response))
    /\ UNCHANGED <<nrm_in, runVars, heurVars, aggVars, callVars>>

SpecNorm == InitNorm /\ [][Normalize]_vars

-----------------------------------------------------------------------------
(* The `review` command (cli.py): load, loop over the hunks, heuristics,   *)
(* report.                                                                 *)

Init ==
    /\ NrmIdle /\ HeurIdle /\ AggIdle /\ CallIdle
    /\ backend \in Backends
    /\ loop_running \in BOOLEAN
    /\ hunks \in HunkSeqs
    /\ pc = "start" /\ idx = 0 /\ all_findings = <<>> /\ outcomes = <<>>
    /\ warnings = 0 /\ report = NoReport

\* lines 94-104: no hunks, nothing to review
Start ==
    /\ pc = "start"
    /\ pc' = IF hunks = <<>> THEN "returned" ELSE "loop"
    /\ UNCHANGED <<backend, loop_running, hunks, idx, all_findings, outcomes,
                   warnings, report, nrmVars, heurVars, aggVars, callVars>>

\* one iteration of the for loop (lines 113-120)
ReviewNext ==
    /\ pc = "loop" /\ idx < Len(hunks)
    /\ \E env \in EnvOutcomes(backend, loop_running) :
          LET findings == review_hunk(backend, loop_running, hunks[idx + 1], env)
          IN  /\ IF findings.raised
                 THEN /\ warnings' = warnings + 1
                      /\ UNCHANGED all_findings
                 ELSE /\ all_findings' = all_findings \o findings.value
                      /\ UNCHANGED warnings
              /\ outcomes' = Append(outcomes, env)
    /\ idx' = idx + 1
    /\ UNCHANGED <<backend, loop_running, hunks, pc, report, nrmVars, heurVars, aggVars, callVars>>

\* lines 122-124
ApplyHeuristicsStep ==
    /\ pc = "loop" /\ idx = Len(hunks)
    /\ all_findings' = apply_security_heuristics(all_findings)
    /\ pc' = "heuristics_applied"
    /\ UNCHANGED <<backend, loop_running, hunks, idx, outcomes, warnings,
                   report, nrmVars, heurVars, aggVars, callVars>>

\* lines 126-141
WriteReport ==
    /\ pc = "heuristics_applied"
    /\ report' = [written |-> TRUE, findings |-> all_findings]
    /\ pc' = "done"
    /\ UNCHANGED <<backend, loop_running, hunks, idx, all_findings, outcomes,
                   warnings, nrmVars, heurVars, aggVars, callVars>>

Next == Start \/ ReviewNext \/ ApplyHeuristicsStep \/ WriteReport

Spec == Init /\ [][Next]_vars

-----------------------------------------------------------------------------
(* The heuristic pass on its own: a finding list, passed through           *)
(* apply_security_heuristics one or more times in a row.                   *)

SampleSeverities == {"major", "minor", "nit", "info"}
SampleCategories == {"general", "security"}
SampleConfidences == {60, 90}
SampleMessages == {"leaked password in config", "Unused import"}

\* a keyword that only lower-casing finds
UpperCaseSample ==
    Finding(HunkA.file_path, HunkA.hunk_header, "nit", "general",
            "Rotate the API Key", 90, None, HunkA.end_line)

FindingSamples ==
    {Finding(HunkA.file_path, HunkA.hunk_header, sev, cat, msg, conf, None,
             HunkA.end_line) :
        sev \in SampleSeverities, cat \in SampleCategories,
        msg \in SampleMessages, conf \in SampleConfidences}
      \cup {UpperCaseSample}

\* the finding objects a list of identities refers to
Deref(h, ids) == [i \in 1..Len(ids) |-> h[ids[i]]]

\* the objects of a fresh finding list are distinct: the normaliser builds
\* one Finding per item
InitHeur ==
    /\ RunIdle /\ NrmIdle /\ AggIdle /\ CallIdle
    /\ heap \in SeqsUpTo(FindingSamples, MaxFindings)
    /\ arg_list = [i \in 1..Len(heap) |-> i]
    /\ ret_list = arg_list
    /\ changed = [i \in 1..Len(heap) |-> 0]
    /\ heur_out = Deref(heap, ret_list)
    /\ heur_in = heur_out
    /\ passes = 0

\* all_findings = apply_security_heuristics(all_findings), once more: the
\* caller hands over the list it holds and keeps the list it gets back
ApplyPass ==
    /\ passes < MaxPasses
    /\ \E done \in {apply_security_heuristics_inplace(heap, ret_list)} :
          /\ heap' = done.heap
          /\ arg_list' = ret_list
          /\ ret_list' = done.enhanced_findings
          /\ changed' = [i \in 1..Len(done.heap) |->
                            IF i > Len(heap) THEN 0
                            ELSE IF done.heap[i] # heap[i] THEN changed[i] + 1
                            ELSE changed[i]]
          /\ heur_in' = heur_out
          /\ heur_out' = Deref(done.heap, done.enhanced_findings)
    /\ passes' = passes + 1
    /\ UNCHANGED <<runVars, nrmVars, aggVars, callVars>>

SpecHeur == InitHeur /\ [][ApplyPass]_vars

-----------------------------------------------------------------------------
(* Aggregation (cli.py): the stats of `summarize` and of the summary       *)
(* format of `review_only`, for the same findings.                         *)

\* ReviewStats(): every counter starts at 0
ReviewStats == [blocking |-> 0, major |-> 0, minor |-> 0, nit |-> 0, total |-> 0]

\* BumpBucket with a final else: every other severity lands in nit
BumpBucket_ElseNit(stats, finding) ==
    IF finding.severity = "blocking" THEN [stats EXCEPT !.blocking = @ + 1]
    ELSE IF finding.severity = "major" THEN [stats EXCEPT !.major = @ + 1]
    ELSE IF finding.severity = "minor" THEN [stats EXCEPT !.minor = @ + 1]
    ELSE [stats EXCEPT !.nit = @ + 1]

\* the if/elif chain on finding.severity (lines 165-172, again 334-341)
BumpBucket(stats, finding) ==
    IF finding.severity = "blocking" THEN [stats EXCEPT !.blocking = @ + 1]
    ELSE IF finding.severity = "major" THEN [stats EXCEPT !.major = @ + 1]
    ELSE IF finding.severity = "minor" THEN [stats EXCEPT !.minor = @ + 1]
    ELSE IF finding.severity = "nit" THEN [stats EXCEPT !.nit = @ + 1]
    ELSE stats

\* summarize: the for loop of lines 164-172
RECURSIVE SummarizeLoop(_, _)
SummarizeLoop(stats, findings) ==
    IF findings = <<>> THEN stats
    ELSE SummarizeLoop(BumpBucket(stats, Head(findings)), Tail(findings))

\* summarize, lines 162-173: stats.total is len(findings) after the loop
summarize(findings) ==
    Return([SummarizeLoop(ReviewStats, findings) EXCEPT !.total = Len(findings)])

\* review_only: the for loop of lines 333-342, stats.total += 1 in the loop
RECURSIVE ReviewOnlyLoop(_, _)
ReviewOnlyLoop(stats, findings) ==
    IF findings = <<>> THEN stats
    ELSE ReviewOnlyLoop([BumpBucket(stats, Head(findings)) EXCEPT !.total = @ + 1],
                        Tail(findings))

\* the names bound at module level of cli.py (imports and functions)
CliGlobals ==
    [n \in {"json", "os", "Path", "Optional", "typer", "Console", "Table",
            "Progress", "SpinnerColumn", "TextColumn", "fetch_pr_files",
            "GitHubAPIError", "extract_hunks_from_files", "review_hunk",
            "apply_security_heuristics", "PRDiff", "FindingsReport",
            "ReviewStats", "show", "validate", "env", "test", "console",
            "app", "fetch", "review", "summarize", "review_only", "main"}
        |-> n]

\* raise typer.Exit(code)
Exit(code) == Raise("Exit", code)

\* the body of the try statement of review_only (lines 241-368), for a PR
\* whose review collects `findings`
ReviewOnlyTryBody(pr_files, findings, format) ==
    IF pr_files = 0 THEN Exit("1")
    ELSE LET PRInfo == Name(CliGlobals, "PRInfo")
         IN  IF PRInfo.raised THEN PRInfo
             ELSE IF findings = <<>> THEN Return(None)
             ELSE IF format = "summary"
                  THEN Return(ReviewOnlyLoop(ReviewStats, findings))
                  ELSE Return(None)

\* review_only: both except clauses end in raise typer.Exit(1)
review_only(pr_files, findings, format) ==
    LET body == ReviewOnlyTryBody(pr_files, findings, format)
    IN  IF body.raised /\ IsInstance(body.exc, "Exception") THEN Exit("1")
        ELSE body

Severities == {"blocking", "major", "minor", "nit", "info"}

SeverityFinding(severity) ==
    Finding(HunkA.file_path, HunkA.hunk_header, severity, "general",
            "Unused import", 60, None, HunkA.end_line)

SeverityList(severities) ==
    [i \in 1..Len(severities) |-> SeverityFinding(severities[i])]

\* the example of the specification
ExampleSeverities ==
    <<"blocking", "blocking", "major", "minor", "nit", "nit", "nit">>

ReportLists ==
    {SeverityList(sevs) : sevs \in SeqsUpTo(Severities, MaxReportFindings)}
      \cup {SeverityList(ExampleSeverities)}

InitAgg ==
    /\ RunIdle /\ NrmIdle /\ HeurIdle /\ CallIdle
    /\ agg_in \in [findings : ReportLists, pr_files : {0, 1},
                   format : {"json", "summary"}]
    /\ agg_sum = NotCalled
    /\ agg_ro = NotCalled

\* qrev summarize on the report
Summarize ==
    /\ ~agg_sum.called
    /\ agg_sum' = Called(summarize(agg_in.findings))
    /\ UNCHANGED <<agg_in, agg_ro, runVars, nrmVars, heurVars, callVars>>

\* qrev review-only on the PR the report was made for
ReviewOnly ==
    /\ ~agg_ro.called
    /\ agg_ro' = Called(review_only(agg_in.pr_files, agg_in.findings,
                                    agg_in.format))
    /\ UNCHANGED <<agg_in, agg_sum, runVars, nrmVars, heurVars, callVars>>

NextAgg == Summarize \/ ReviewOnly

SpecAgg == InitAgg /\ [][NextAgg]_vars

-----------------------------------------------------------------------------
(* One call of the synchronous review_hunk, step by step: the wrapper, the *)
(* adapter's backend call, the wait for the backend, the return.           *)

InitCall ==
    /\ NrmIdle /\ HeurIdle /\ AggIdle
    /\ backend \in Backends
    /\ loop_running \in BOOLEAN
    /\ hunks \in {<<h>> : h \in Hunks}
    /\ pc = "idle" /\ idx = 0 /\ all_findings = <<>> /\ outcomes = <<>>
    /\ warnings = 0 /\ report = NoReport
    /\ call_pc = "start" /\ process = NotStarted
    /\ responsive \in BOOLEAN
    /\ backend_calls = 0 /\ parser_calls = 0 /\ call_result = NotCalled

\* what the backend did for the call is settled; the rest of the call runs
\* without waiting for anything
Settles(env) ==
    /\ outcomes' = <<env>>
    /\ call_pc' = "returning"
    /\ UNCHANGED <<call_result, parser_calls>>

\* the rest of the call: the adapter makes its result of what the backend
\* did, handing the response to the normaliser if it has one, and the wrapper
\* returns (or raises) it
CallReturns ==
    /\ call_pc = "returning"
    /\ parser_calls' =
          parser_calls
            + (IF outcomes[1] = NoBackendCall THEN 0
               ELSE NormaliserCalls(get_llm_client(backend).value, outcomes[1]))
    /\ call_result' = Called(review_hunk(backend, loop_running, hunks[1],
                                         outcomes[1]))
    /\ call_pc' = "returned"
    /\ UNCHANGED <<backend, loop_running, hunks, pc, idx, all_findings,
                   outcomes, warnings, report, process, responsive,
                   backend_calls, nrmVars, heurVars, aggVars>>

\* lines 303-311: no client for the backend, or a running loop: no adapter
WrapperPunts ==
    /\ call_pc = "start"
    /\ get_llm_client(backend).raised \/ loop_running
    /\ Settles(NoBackendCall)
    /\ UNCHANGED <<backend, loop_running, hunks, pc, idx, all_findings,
                   warnings, report, process, responsive, backend_calls,
                   nrmVars, heurVars, aggVars>>

\* lines 312-314: asyncio.run(client.review_hunk(hunk, guidelines))
WrapperRuns ==
    /\ call_pc = "start"
    /\ ~get_llm_client(backend).raised /\ ~loop_running
    /\ call_pc' = "adapter"
    /\ UNCHANGED <<runVars, process, responsive, backend_calls, parser_calls,
                   call_result, nrmVars, heurVars, aggVars>>

\* lines 160-164: create_subprocess_exec raises, there is no ssh to run
SshSpawnFails ==
    /\ call_pc = "adapter" /\ backend = "amazon_q"
    /\ backend_calls' = backend_calls + 1
    /\ Settles(SshSpawnError(NoSsh))
    /\ UNCHANGED <<backend, loop_running, hunks, pc, idx, all_findings,
                   warnings, report, process, responsive,
                   nrmVars, heurVars, aggVars>>

\* lines 160-164: the ssh subprocess is started
SshSpawn ==
    /\ call_pc = "adapter" /\ backend = "amazon_q"
    /\ backend_calls' = backend_calls + 1
    /\ process' = Running
    /\ call_pc' = "communicate"
    /\ UNCHANGED <<runVars, responsive, parser_calls, call_result, nrmVars,
                   heurVars, aggVars>>

\* the ssh subprocess ends by itself, whether or not anybody waits for it
ProcessExits ==
    /\ process = Running /\ responsive
    /\ \E env \in {o \in SshOutcomes : o.kind = "exit"} : process' = env
    /\ UNCHANGED <<runVars, call_pc, responsive, backend_calls, parser_calls,
                   call_result, nrmVars, heurVars, aggVars>>

\* lines 166-179 and 104: communicate() returns within the timeout
CommunicateReturns ==
    /\ call_pc = "communicate" /\ process.kind = "exit"
    /\ Settles(process)
    /\ UNCHANGED <<backend, loop_running, hunks, pc, idx, all_findings,
                   warnings, report, process, responsive, backend_calls,
                   nrmVars, heurVars, aggVars>>

\* lines 166-169 and 181-182: wait_for gives up on communicate(); nothing
\* in the handler or after it touches the subprocess
WaitForTimesOut ==
    /\ call_pc = "communicate" /\ process = Running
    /\ Settles(SshTimeout)
    /\ UNCHANGED <<backend, loop_running, hunks, pc, idx, all_findings,
                   warnings, report, process, responsive, backend_calls,
                   nrmVars, heurVars, aggVars>>

VendorOutcomes == IF backend = "bedrock" THEN BedrockOutcomes ELSE OpenAIOutcomes

\* lines 197 and 254: the vendor module cannot be imported
VendorImportFails ==
    /\ call_pc = "adapter" /\ backend \in {"bedrock", "openai"}
    /\ Settles(ImportFails)
    /\ UNCHANGED <<backend, loop_running, hunks, pc, idx, all_findings,
                   warnings, report, process, responsive, backend_calls,
                   nrmVars, heurVars, aggVars>>

\* lines 218-222 and 263-271: invoke_model / ChatCompletion.acreate is
\* entered; the call is given no timeout
VendorCall ==
    /\ call_pc = "adapter" /\ backend \in {"bedrock", "openai"}
    /\ backend_calls' = backend_calls + 1
    /\ call_pc' = "vendor_wait"
    /\ UNCHANGED <<runVars, process, responsive, parser_calls, call_result,
                   nrmVars, heurVars, aggVars>>

\* the vendor call comes back, with a content or with an exception
VendorReturns ==
    /\ call_pc = "vendor_wait" /\ responsive
    /\ \E env \in {o \in VendorOutcomes : o.kind # "import_error"} :
          Settles(env)
    /\ UNCHANGED <<backend, loop_running, hunks, pc, idx, all_findings,
                   warnings, report, process, responsive, backend_calls,
                   nrmVars, heurVars, aggVars>>

NextCall ==
    \/ WrapperPunts \/ WrapperRuns
    \/ SshSpawnFails \/ SshSpawn \/ ProcessExits \/ CommunicateReturns
    \/ WaitForTimesOut
    \/ VendorImportFails \/ VendorCall \/ VendorReturns
    \/ CallReturns

SpecCall == InitCall /\ [][NextCall]_vars

-----------------------------------------------------------------------------
(* Properties of the heuristic pass (under SpecHeur).                      *)

\* the security vocabulary, as a set
SecurityTerms ==
    {"password", "secret", "key", "token", "auth", "login", "admin", "sql",
     "injection", "xss", "csrf", "eval", "exec", "shell", "file", "upload",
     "download", "path", "traversal", "overflow"}

\* the lower-cased message contains a security term as a substring
SaysSecurityTerm(message) ==
    \E low \in {lower(message)} : \E term \in SecurityTerms : Contains(low, term)

SameVerdict(a, b) ==
    /\ a.category = b.category
    /\ a.severity = b.severity
    /\ a.confidence = b.confidence

\* C7: after a pass, every finding whose message says a security term and
\* whose category was not `security` has category `security`; if its severity
\* was `nit` or `minor` it is now `major` with confidence min(c + 0.2, 1.0),
\* and otherwise its severity and confidence are what they were.
C7_EscalationRule ==
    passes >= 1 =>
        /\ Len(heur_out) = Len(heur_in)
        /\ \A i \in 1..Len(heur_in) :
              LET before == heur_in[i]
                  after == heur_out[i]
              IN  (before.category # "security" /\ SaysSecurityTerm(before.message))
                    => /\ after.category = "security"
                       /\ before.severity \in {"nit", "minor"}
                            => /\ after.severity = "major"
                               /\ after.confidence
                                    = IF before.confidence + 20 > 100 THEN 100
                                      ELSE before.confidence + 20
                       /\ before.severity \notin {"nit", "minor"}
                            => /\ after.severity = before.severity
                               /\ after.confidence = before.confidence

\* general/minor/0.6 "leaked password in config" became security/major/0.8,
\* next to a matching finding of severity `major` that only changed category
C7_Witness ==
    /\ passes = 1 /\ Len(heur_in) = 2
    /\ heur_in[1].category = "general" /\ heur_in[1].severity = "minor"
    /\ heur_in[1].confidence = 60
    /\ heur_in[1].message = "leaked password in config"
    /\ heur_out[1].category = "security" /\ heur_out[1].severity = "major"
    /\ heur_out[1].confidence = 80
    /\ heur_in[2].category = "general" /\ heur_in[2].severity = "major"
    /\ heur_in[2].message = "leaked password in config"
    /\ heur_out[2].category = "security" /\ heur_out[2].severity = "major"
    /\ heur_out[2].confidence = heur_in[2].confidence

\* C8: a second pass in a row changes no finding's category, severity or
\* confidence, and a finding that is already `security` is never touched.
C8_Idempotent ==
    /\ passes >= 2 =>
          /\ Len(heur_out) = Len(heur_in)
          /\ \A i \in 1..Len(heur_in) : SameVerdict(heur_out[i], heur_in[i])
    /\ passes >= 1 =>
          \A i \in 1..Len(heur_in) :
              heur_in[i].category = "security" => SameVerdict(heur_out[i], heur_in[i])

\* the second pass over a list whose first pass escalated a finding (0.8 is
\* no sampled confidence: it is 0.6 raised once) and which holds a finding
\* that says a security term, is `security` and is still `minor`
C8_Witness ==
    /\ passes = 2 /\ Len(heur_out) = 2
    /\ heur_out[1].category = "security" /\ heur_out[1].severity = "major"
    /\ heur_out[1].confidence = 80
    /\ heur_out[2].category = "security" /\ heur_out[2].severity = "minor"
    /\ SaysSecurityTerm(heur_out[2].message)

\* C9: on a list in which no message says a security term, a pass changes no
\* finding's category, severity or confidence.
C9_NoKeywordNoChange ==
    (passes >= 1 /\ \A i \in 1..Len(heur_in) : ~SaysSecurityTerm(heur_in[i].message))
        => /\ Len(heur_out) = Len(heur_in)
           /\ \A i \in 1..Len(heur_in) : SameVerdict(heur_out[i], heur_in[i])

\* a pass over a list without security terms that holds a low-severity,
\* non-security finding (the kind the rule would escalate)
C9_Witness ==
    /\ passes = 1 /\ Len(heur_in) = 2
    /\ \A i \in 1..2 : ~SaysSecurityTerm(heur_in[i].message)
    /\ heur_in[1].category = "general" /\ heur_in[1].severity = "nit"
    /\ heur_in[2].category = "security" /\ heur_in[2].severity = "info"

-----------------------------------------------------------------------------
(* Properties of the normaliser (under SpecNorm).                          *)

\* a JSON array of N >= 1 well-formed finding objects
IsWellFormedArray(raw) ==
    /\ raw.kind = "json" /\ raw.value.t = "list"
    /\ Len(raw.value.items) >= 1
    /\ \A i \in 1..Len(raw.value.items) : IsWellFormedObject(raw.value.items[i])

\* the findings such an array stands for, for a hunk
ExpectedFindings(hunk, raw) ==
    [i \in 1..Len(raw.value.items) |->
        LET obj == raw.value.items[i].d
        IN  [file |-> hunk.file_path, hunk_header |-> hunk.hunk_header,
             severity |-> obj.severity, category |-> obj.category,
             message |-> obj.message, confidence |-> obj.confidence,
             suggested_patch |->
                 IF "suggested_patch" \in DOMAIN obj THEN obj.suggested_patch
                 ELSE None,
             line_hint |-> hunk.end_line]]

\* C3: a valid JSON array of N >= 1 well-formed finding objects normalises to
\* exactly N findings, in order, with the objects' severity, category, message,
\* confidence and suggested patch, the hunk's file and header, and the hunk's
\* end line as line hint.
C3_ValidArrayGivesNFindings ==
    (nrm_out.called /\ IsWellFormedArray(nrm_in.response))
        => /\ ~nrm_out.result.raised
           /\ nrm_out.result.value = ExpectedFindings(nrm_in.hunk, nrm_in.response)

\* C4: a raw text that is no JSON normalises to exactly one finding, a
\* diagnostic of category `system`, severity `info` and confidence <= 0.1.
C4_NonJsonGivesOneDiagnostic ==
    (nrm_out.called /\ nrm_in.response.kind = "text")
        => /\ ~nrm_out.result.raised
           /\ Len(nrm_out.result.value) = 1
           /\ nrm_out.result.value[1].category = "system"
           /\ nrm_out.result.value[1].severity = "info"
           /\ nrm_out.result.value[1].confidence <= 10

\* C5: the normaliser is total: whatever the raw text, the call returns a
\* sequence of findings and raises nothing.
C5_NormalizerNeverRaises ==
    nrm_out.called => ~nrm_out.result.raised

-----------------------------------------------------------------------------
(* Properties of a review run (under Spec).                                *)

FromHunk(f, hunk) == f.file = hunk.file_path /\ f.hunk_header = hunk.hunk_header

\* the findings of a list that belong to a hunk (the hunks of a run differ)
FindingsFor(hunk, fs) == SelectSeq(fs, LAMBDA f : FromHunk(f, hunk))

LoopFinished == pc = "loop" /\ idx = Len(hunks)

\* C1: every hunk the loop has gone through has at least one finding in the
\* collected list, whatever the backend did, so that the loop ends with at
\* least as many findings as hunks.
C1_EveryHunkHasAFinding ==
    /\ \A i \in 1..idx : \E k \in 1..Len(all_findings) : FromHunk(all_findings[k], hunks[i])
    /\ LoopFinished => Len(all_findings) >= Len(hunks)

\* the backend call made for a hunk failed
BackendFailed(env) ==
    \/ env.kind \in {"spawn_error", "timeout", "import_error", "error"}
    \/ env.kind = "exit"
          /\ (env.returncode # 0 \/ IsEmptyText(StripText(env.stdout)))

\* the backend call succeeded and answered with a well-formed array
BackendAnswered(env) ==
    \/ env.kind = "exit" /\ env.returncode = 0 /\ IsWellFormedArray(env.stdout)
    \/ env.kind = "content" /\ IsWellFormedArray(env.text)

AnswerOf(env) == IF env.kind = "exit" THEN env.stdout ELSE env.text

\* C2: when the backend call fails for some hunks and succeeds for the others,
\* the loop ends with exactly one `system` diagnostic for each failed hunk,
\* carrying its file and header, and with the normal findings of every other
\* hunk.
C2_FailuresStayLocal ==
    ( /\ LoopFinished
      /\ \A i \in 1..idx : BackendFailed(outcomes[i]) \/ BackendAnswered(outcomes[i])
      /\ \E i \in 1..idx : BackendFailed(outcomes[i])
      /\ \E i \in 1..idx : BackendAnswered(outcomes[i]) )
        => \A i \in 1..idx :
              LET mine == FindingsFor(hunks[i], all_findings)
              IN  IF BackendFailed(outcomes[i])
                  THEN Len(mine) = 1 /\ mine[1].category = "system"
                  ELSE mine = ExpectedFindings(hunks[i], AnswerOf(outcomes[i]))

\* C6: with an unsupported backend identifier the run stops before the first
\* hunk: no loop iteration is made, the loop is never finished, no heuristic
\* pass is applied and no report is written.
C6_UnsupportedBackendIsFatal ==
    backend \notin SupportedBackends
        => /\ idx = 0
           /\ pc \notin {"heuristics_applied", "done"}
           /\ ~report.written

StartsWith(s, p) == Len(s) >= Len(p) /\ SubSeq(s, 1, Len(p)) = p

\* a finding made by _create_dummy_finding
IsDiagnostic(f) == StartsWith(f.message, "LLM response parsing failed: ")

\* C10: in the report of a run, every diagnostic finding has category `system`
\* and confidence <= 0.1.
C10_DiagnosticsStaySystem ==
    report.written =>
        \A k \in 1..Len(report.findings) :
            IsDiagnostic(report.findings[k])
                => /\ report.findings[k].category = "system"
                   /\ report.findings[k].confidence <= 10

\* the fields the pass has no business with
SameFrame(a, b) ==
    /\ a.file = b.file
    /\ a.hunk_header = b.hunk_header
    /\ a.message = b.message
    /\ a.suggested_patch = b.suggested_patch
    /\ a.line_hint = b.line_hint

\* C16: the list a pass returns holds, in the same order, the very objects of
\* the list it was given, so the caller's list shows the changes; of every
\* finding only category, severity and confidence can differ from before the
\* pass; and over all the passes applied no finding changes more than once.
C16_InPlaceFrame ==
    passes >= 1 =>
        /\ ret_list = arg_list
        /\ Len(heur_out) = Len(heur_in)
        /\ \A i \in 1..Len(arg_list) :
              /\ heap[arg_list[i]] = heur_out[i]
              /\ SameFrame(heur_in[i], heur_out[i])
        /\ \A id \in 1..Len(heap) : changed[id] <= 1

\* after two passes the first object of the caller's list has been changed,
\* once, and the second has not
C16_Witness ==
    /\ passes = 2
    /\ Len(arg_list) = 2
    /\ ret_list = arg_list
    /\ changed = <<1, 0>>
    /\ heap[arg_list[1]].category = "security"
    /\ heap[arg_list[1]].severity = "major"

-----------------------------------------------------------------------------
(* Properties of the aggregation (under SpecAgg).                          *)

\* the number of findings of the list with exactly this severity
CountOf(findings, severity) ==
    Cardinality({i \in 1..Len(findings) : findings[i].severity = severity})

ExpectedStats(findings) ==
    [blocking |-> CountOf(findings, "blocking"),
     major |-> CountOf(findings, "major"),
     minor |-> CountOf(findings, "minor"),
     nit |-> CountOf(findings, "nit"),
     total |-> Len(findings)]

\* C11: for every finding list the four buckets count the findings of exactly
\* that severity and total is the length of the list, and the summary format
\* of review_only gives the same stats as summarize for the same findings.
C11_AggregationAgrees ==
    (agg_sum.called /\ agg_ro.called
        /\ agg_in.pr_files > 0 /\ agg_in.format = "summary"
        /\ agg_in.findings # <<>>) =>
        /\ ~agg_sum.result.raised
        /\ agg_sum.result.value = ExpectedStats(agg_in.findings)
        /\ ~agg_ro.result.raised
        /\ agg_ro.result.value = agg_sum.result.value

\* what summarize alone computes is the expected count
C11_SummarizeCounts ==
    agg_sum.called =>
        /\ ~agg_sum.result.raised
        /\ agg_sum.result.value = ExpectedStats(agg_in.findings)

-----------------------------------------------------------------------------
(* Properties of one review_hunk call (under SpecCall).                    *)

CallReturned == call_pc = "returned" /\ call_result.called

\* C12: when the wait for the ssh subprocess has timed out, review_hunk has
\* not returned while the subprocess started for the hunk is still running.
C12_NoSubprocessLeftRunning ==
    ~(CallReturned /\ outcomes = <<SshTimeout>> /\ process = Running)

\* C13: whichever adapter is selected, a call to a backend that never
\* responds is not blocked: as long as it has not returned it can take a step.
C13_EveryCallCanReturn ==
    (~responsive /\ call_pc # "returned") => ENABLED NextCall

\* why the normaliser gets no finding out of a raw text
Cause(raw) ==
    IF raw.kind = "text" THEN "not_json"
    ELSE IF raw.value.t = "list"
    THEN IF \E i \in 1..Len(raw.value.items) : raw.value.items[i].t = "dict"
         THEN "findings" ELSE "empty_list"
    ELSE IF raw.value.t = "dict" /\ "findings" \in DOMAIN raw.value.d
    THEN "findings_key"
    ELSE "unexpected_shape"

ZeroFindingCauses == {"not_json", "unexpected_shape", "empty_list"}

\* the same backend outcome with another answer in it
WithAnswer(env, raw) ==
    IF env.kind = "exit" THEN [env EXCEPT !.stdout = raw]
    ELSE [env EXCEPT !.text = raw]

\* C14: when the answer handed to the normaliser yields no finding, the
\* adapter returns one diagnostic whose message differs from the message it
\* returns for an answer that yields no finding for another of the three
\* causes (not JSON, unexpected shape, list without findings).
C14_DiagnosticNamesTheCause ==
    (CallReturned /\ parser_calls = 1
        /\ Cause(AnswerOf(outcomes[1])) \in ZeroFindingCauses) =>
        /\ ~call_result.result.raised
        /\ Len(call_result.result.value) = 1
        /\ \A other \in RawTexts :
              (Cause(other) \in ZeroFindingCauses
                  /\ Cause(other) # Cause(AnswerOf(outcomes[1]))) =>
                 LET r == Client_review_hunk(get_llm_client(backend).value,
                                             hunks[1],
                                             WithAnswer(outcomes[1], other))
                 IN  /\ ~r.raised
                     /\ Len(r.value) = 1
                     /\ r.value[1].message # call_result.result.value[1].message

\* stdout is empty or made of white space only
IsBlank(raw) ==
    /\ raw.kind = "text"
    /\ \A i \in 1..Len(raw.text) : IsSpace(SubSeq(raw.text, i, i))

\* the ssh command ended with a non-zero exit status or with a blank output
SshCommandFailed(env) ==
    env.kind = "exit" /\ (env.returncode # 0 \/ IsBlank(env.stdout))

\* C15: when the ssh command ends with a non-zero exit status or with an empty
\* (white space only) standard output, review_hunk raises nothing and returns
\* exactly one `system` finding for the hunk, and the normaliser is not called.
C15_SshFailureIsOneDiagnostic ==
    (CallReturned /\ backend = "amazon_q" /\ SshCommandFailed(outcomes[1])) =>
        /\ ~call_result.result.raised
        /\ Len(call_result.result.value) = 1
        /\ call_result.result.value[1].category = "system"
        /\ FromHunk(call_result.result.value[1], hunks[1])
        /\ parser_calls = 0

\* a call that got exit status 0 and a blank output has returned its diagnostic
C15_Witness ==
    /\ CallReturned /\ backend = "amazon_q"
    /\ outcomes = <<SshExit(0, PlainText(" \n"), "")>>
    /\ ~call_result.result.raised
    /\ call_result.result.value[1].message =
          "LLM response parsing failed: Amazon Q CLI error: SSH execution error: Empty response from Q CLI"
    /\ parser_calls = 0

\* the stub the wrapper returns inside a running loop
IsStubFor(f, hunk) ==
    /\ FromHunk(f, hunk)
    /\ f.category = "system" /\ f.severity = "info" /\ f.confidence = 10

\* C17: called while an event loop is running, the wrapper makes no backend
\* call and returns exactly one stub finding for the hunk; called with no
\* loop running, it returns what the selected adapter's review_hunk returns.
C17_WrapperPuntsInLoop ==
    CallReturned =>
        IF loop_running
        THEN /\ backend_calls = 0
             /\ ~call_result.result.raised
             /\ Len(call_result.result.value) = 1
             /\ IsStubFor(call_result.result.value[1], hunks[1])
        ELSE backend \in SupportedBackends =>
                call_result.result =
                    Client_review_hunk(get_llm_client(backend).value, hunks[1],
                                       outcomes[1])

====
